---------------------------- MODULE Spec2Model ----------------------------
(***************************************************************************)
(* The MQTT telemetry transmitter of src/tools/transmitter.py              *)
(* (class MQTTTransmitter) as a state machine.                             *)
(*                                                                         *)
(* Two threads act on one transmitter object:                              *)
(*   - the producer thread, which calls transmit_reading / transmit_batch; *)
(*   - the network-loop thread started by client.loop_start(), which runs  *)
(*     the callbacks _on_connect (and, inside it, _process_offline_queue)  *)
(*     and _on_disconnect.                                                 *)
(* Every access to the shared state (self.connected, self.offline_queue)   *)
(* is one step, so that the threads interleave between any two of them.    *)
(* queue.Queue is internally locked: qsize, empty, put and get_nowait are  *)
(* each atomic, but nothing makes two of them atomic together.             *)
(*                                                                         *)
(* A reading is identified by its submission number 1, 2, 3, ...           *)
(***************************************************************************)
EXTENDS Integers, Sequences, FiniteSets

(***************************************************************************)
(* Bounds of the model.                                                    *)
(***************************************************************************)
\* Number of readings the producer submits in one behaviour.
MaxReadings == 3
\* self.max_queue_size: the literal 1000 of __init__, scaled down so that
\* the queue fills within MaxReadings submissions.
QueueCap == 2
\* Number of sleeps of connect()'s wait loop before its timeout is over
\* (timeout = 10 s at 0.1 s a sleep in the source, scaled down).
MaxPolls == 1
\* Number of publish calls the transport may report as failed.
MaxFails == 1
\* Longest list handed to transmit_batch.
MaxBatch == 2

(***************************************************************************)
(* Program constants.                                                      *)
(***************************************************************************)
\* mqtt.MQTT_ERR_SUCCESS: "if result.rc == mqtt.MQTT_ERR_SUCCESS"
MQTT_ERR_SUCCESS == 0

\* the rc values client.publish may report: success, or any other code
PublishRcs == {MQTT_ERR_SUCCESS, 1}
\* what _send_reading has instead of an rc when its except branch caught an
\* exception before client.publish returned
Caught == 0 - 1

\* the rc values _on_connect may be called with: 0 (accepted) or a refusal
ConnectRcs == {0, 5}

\* "no value yet" in the history variables
NoValue == "none"

\* config.get("host", "localhost")
broker_host == "localhost"
\* config.get("port", 1883)
broker_port == 1883
\* config.get("base_topic", "sensors")
base_topic == "sensors"
\* config.get("device_id", "sensor_device_1")
device_id == "sensor_device_1"

\* no get_status call is building a dict
NoStatus == [connected |-> FALSE, broker |-> <<>>, queue_size |-> 0 - 1,
             device_id |-> ""]

\* what the construction config may carry under "max_queue_size"; 0 stands
\* for a config without the key. The values are scaled like QueueCap and
\* differ from it, as the claim's 2 differs from the source's 1000.
ConfigMaxValues == {0, 1}

VARIABLES
  config_max,      \* config.get("max_queue_size"), 0 when the key is absent
  malformed,       \* the reading number whose dict lacks "measurement_type" (0: none)
  max_queue_size,  \* self.max_queue_size
  connected,       \* self.connected
  queue,           \* self.offline_queue, head first
  ppc,             \* producer thread: where it is in transmit_reading/transmit_batch
  reading,         \* producer thread: the reading of the running transmit_reading (0: none)
  batch,           \* producer thread: readings of transmit_batch not yet iterated
  batch_n,         \* producer thread: len(readings) of the last transmit_batch call
  in_batch,        \* producer thread: TRUE inside transmit_batch
  success_count,   \* producer thread: transmit_batch's counter
  loop,            \* the client's network loop: "never" started, "running", "stopped"
  polls,           \* caller thread: sleeps done by the wait loop of connect()
  status,          \* caller thread: the dict get_status is building (NoStatus: none)
  npc,             \* network thread: the callback it runs and where it is in it
  connect_rc,      \* network thread: argument rc of the running _on_connect
  held,            \* network thread: the reading popped by the replay pass (0: none)
  passes,          \* number of _process_offline_queue calls that have not returned
  \* ---- history of the run (not program state) ----
  nextId,          \* number of readings submitted so far
  returned,        \* reading -> NoValue, or "True"/"False" as transmit_reading returned
  path,            \* reading -> what transmit_reading did with it
  pubs,            \* reading -> number of client.publish calls issued for it
  sent,            \* readings whose publish succeeded, in publish order
  published,       \* the messages handed to client.publish so far
  evicted,         \* readings removed by the overflow branch, in order
  fails,           \* number of failed publishes so far
  everConnected,   \* TRUE once self.connected has been TRUE
  passFailed,      \* TRUE from a failed send of a replay pass to the next pass
  connect_result,  \* caller thread: what connect() is returning (NoValue: nothing)
  wait_end,        \* caller thread: how the running connect() left its wait
  timed_out        \* TRUE once connect() returned False after its timeout, until
                   \* the next connect() or disconnect() call

vars == <<config_max, malformed, max_queue_size, connected, queue, ppc, reading,
          batch, batch_n, in_batch, success_count, npc, held, nextId,
          returned, path, pubs, sent, evicted, fails, everConnected,
          passFailed, loop, polls, status, connect_rc, connect_result,
          wait_end, timed_out, passes, published>>

cfgVars  == <<config_max, malformed, max_queue_size>>
sessVars == <<loop, polls, status, connect_result, wait_end, timed_out>>
prodVars == <<reading, batch, batch_n, in_batch, success_count, nextId,
             returned, path>>
netVars  == <<npc, connect_rc, held, passes, passFailed>>
histVars == <<pubs, sent, fails, published>>

Readings == 1..MaxReadings

(***************************************************************************)
(* Helpers                                                                 *)
(***************************************************************************)
Last(s) == s[Len(s)]

SeqToSet(s) == {s[i] : i \in 1..Len(s)}

\* Queue.qsize()
qsize == Len(queue)

\* Queue.empty()
empty == Len(queue) = 0

(***************************************************************************)
(* Construction: MQTTTransmitter.__init__(config)                          *)
(***************************************************************************)
\* The part of __init__ that does not depend on the capacity.
InitRest ==
  /\ connected = FALSE
  /\ queue = <<>>
  /\ ppc = "idle"
  /\ reading = 0
  /\ batch = <<>>
  /\ batch_n = 0
  /\ in_batch = FALSE
  /\ success_count = 0
  /\ npc = "idle"
  /\ held = 0
  /\ nextId = 0
  /\ returned = [r \in Readings |-> NoValue]
  /\ path = [r \in Readings |-> NoValue]
  /\ pubs = [r \in Readings |-> 0]
  /\ sent = <<>>
  /\ published = {}
  /\ evicted = <<>>
  /\ fails = 0
  /\ everConnected = FALSE
  /\ passFailed = FALSE
  /\ loop = "never"
  /\ polls = 0
  /\ status = NoStatus
  /\ connect_rc = 0
  /\ connect_result = NoValue
  /\ wait_end = NoValue
  /\ timed_out = FALSE
  /\ passes = 0

\* The transmitter built from a config without a "max_queue_size" key.
Init ==
  /\ config_max = 0
  /\ malformed = 0
  /\ max_queue_size = QueueCap
  /\ InitRest

\* The transmitter built from any config: __init__ never reads the key
\* "max_queue_size", the capacity is the literal whatever the config carries.
InitConfig ==
  /\ config_max \in ConfigMaxValues
  /\ malformed = 0
  /\ max_queue_size = QueueCap
  /\ InitRest

\* The transmitter built from the default config, used by a caller whose
\* first or last reading lacks a field _send_reading looks up.
InitMalformed ==
  /\ config_max = 0
  /\ malformed \in {1, MaxReadings}
  /\ max_queue_size = QueueCap
  /\ InitRest

(***************************************************************************)
(* Readings: the dict handed to transmit_reading, one per reading number.  *)
(***************************************************************************)
\* the caller's dict for reading number r
ReadingOf(r) ==
  [timestamp        |-> 1000 + r,
   value            |-> 20 + r,
   x_position       |-> r,
   y_position       |-> r + 10,
   z_position       |-> r + 20,
   sensor_type      |-> IF r % 2 = 1 THEN "bme280" ELSE "mpu6050",
   measurement_type |-> IF r % 2 = 1 THEN "temperature" ELSE "acceleration"]

\* f"{base_topic}/{device_id}/{sensor_type}/{measurement_type}"
Topic(rd) ==
  base_topic \o "/" \o device_id \o "/" \o rd.sensor_type \o "/" \o
  rd.measurement_type

\* the payload dict that json.dumps serialises, key by key
Payload(rd) ==
  [timestamp        |-> rd.timestamp,
   value            |-> rd.value,
   position         |-> [x |-> rd.x_position, y |-> rd.y_position,
                         z |-> rd.z_position],
   device_id        |-> device_id,
   sensor_type      |-> rd.sensor_type,
   measurement_type |-> rd.measurement_type]

\* client.publish(topic, json.dumps(payload), qos=1)
PUBLISH_QOS == 1

(***************************************************************************)
(* _send_reading(reading): one client.publish call at QoS 1 whose rc the   *)
(* transport decides; TRUE is returned exactly for MQTT_ERR_SUCCESS.       *)
(***************************************************************************)
\* the outcomes of _send_reading(reading) for reading number r: the lookup
\* reading["measurement_type"] raises KeyError for the malformed one
SendOutcomes(r) == IF r = malformed THEN {Caught} ELSE PublishRcs

\* send_reading publishing under device_id/base_topic/...
send_reading_wrong_topic(r, rc) ==
  /\ rc # MQTT_ERR_SUCCESS => fails < MaxFails
  /\ pubs' = [pubs EXCEPT ![r] = @ + 1]
  /\ published' = published \cup
       {[reading |-> r,
         topic   |-> device_id \o "/" \o base_topic \o "/" \o
                     ReadingOf(r).sensor_type \o "/" \o
                     ReadingOf(r).measurement_type,
         payload |-> Payload(ReadingOf(r)),
         qos     |-> PUBLISH_QOS]}
  /\ sent' = IF rc = MQTT_ERR_SUCCESS THEN Append(sent, r) ELSE sent
  /\ fails' = IF rc = MQTT_ERR_SUCCESS THEN fails ELSE fails + 1

send_reading(r, rc) ==
  /\ (rc # MQTT_ERR_SUCCESS /\ rc # Caught) => fails < MaxFails
  /\ IF rc = Caught
       THEN UNCHANGED <<pubs, published, sent, fails>>
       ELSE /\ pubs' = [pubs EXCEPT ![r] = @ + 1]
            /\ published' = published \cup
                 {[reading |-> r,
                   topic   |-> Topic(ReadingOf(r)),
                   payload |-> Payload(ReadingOf(r)),
                   qos     |-> PUBLISH_QOS]}
            /\ sent' = IF rc = MQTT_ERR_SUCCESS THEN Append(sent, r) ELSE sent
            /\ fails' = IF rc = MQTT_ERR_SUCCESS THEN fails ELSE fails + 1

(***************************************************************************)
(* Producer thread                                                         *)
(***************************************************************************)
\* Return with every element of a batch counted, whatever was returned
Return_count_all(val) ==
  /\ returned' = [returned EXCEPT ![reading] = IF val THEN "True" ELSE "False"]
  /\ reading' = 0
  /\ IF in_batch
       THEN /\ success_count' = success_count + 1
            /\ ppc' = "batch_loop"
       ELSE /\ success_count' = success_count
            /\ ppc' = "idle"
  /\ UNCHANGED <<batch, in_batch, nextId>>

\* transmit_reading returns val for the current reading; inside
\* transmit_batch the caller's "if ...: success_count += 1" follows.
Return(val) ==
  /\ returned' = [returned EXCEPT ![reading] = IF val THEN "True" ELSE "False"]
  /\ reading' = 0
  /\ IF in_batch
       THEN /\ success_count' = IF val THEN success_count + 1 ELSE success_count
            /\ ppc' = "batch_loop"
       ELSE /\ success_count' = success_count
            /\ ppc' = "idle"
  /\ UNCHANGED <<batch, in_batch, nextId>>

\* The producer calls transmit_reading(reading) with a fresh reading.
transmit_reading_call ==
  /\ ppc = "idle"
  /\ nextId < MaxReadings
  /\ nextId' = nextId + 1
  /\ reading' = nextId + 1
  /\ in_batch' = FALSE
  /\ ppc' = "check_connected"
  /\ UNCHANGED <<cfgVars, passes, sessVars, connect_rc, batch_n, connected, queue, batch, success_count, npc, held,
                 returned, path, histVars, evicted, everConnected, passFailed>>

\* The producer calls transmit_batch(readings) with k fresh readings.
transmit_batch_call ==
  /\ ppc = "idle"
  /\ \E k \in 0..MaxBatch :
       /\ nextId + k <= MaxReadings
       /\ batch' = [i \in 1..k |-> nextId + i]
       /\ batch_n' = k
       /\ nextId' = nextId + k
  /\ success_count' = 0
  /\ in_batch' = TRUE
  /\ ppc' = "batch_loop"
  /\ UNCHANGED <<cfgVars, passes, sessVars, connect_rc, connected, queue, reading, npc, held,
                 returned, path, histVars, evicted, everConnected, passFailed>>

\* "for reading in readings": the next element, or "return success_count".
transmit_batch_loop ==
  /\ ppc = "batch_loop"
  /\ IF batch = <<>>
       THEN /\ ppc' = "idle"
            /\ in_batch' = FALSE
            /\ UNCHANGED <<reading, batch>>
       ELSE /\ reading' = Head(batch)
            /\ batch' = Tail(batch)
            /\ ppc' = "check_connected"
            /\ UNCHANGED in_batch
  /\ UNCHANGED <<cfgVars, passes, sessVars, connect_rc, batch_n, connected, queue, success_count, npc, held, nextId,
                 returned, path, histVars, evicted, everConnected, passFailed>>

\* _queue_if_offline: "if not self.connected"; when connected it returns
\* False and transmit_reading goes on to _send_reading.
queue_if_offline_check_connected ==
  /\ ppc = "check_connected"
  /\ ppc' = IF ~connected THEN "check_size" ELSE "send"
  /\ UNCHANGED <<cfgVars, passes, sessVars, connect_rc, batch_n, connected, queue, reading, batch, in_batch,
                 success_count, npc, held, nextId, returned, path, histVars,
                 evicted, everConnected, passFailed>>

\* _queue_if_offline: "if self.offline_queue.qsize() < self.max_queue_size"
queue_if_offline_check_size ==
  /\ ppc = "check_size"
  /\ ppc' = IF qsize < max_queue_size THEN "put" ELSE "evict"
  /\ UNCHANGED <<cfgVars, passes, sessVars, connect_rc, batch_n, connected, queue, reading, batch, in_batch,
                 success_count, npc, held, nextId, returned, path, histVars,
                 evicted, everConnected, passFailed>>

\* _queue_if_offline, room left: put(reading); return True
queue_if_offline_put ==
  /\ ppc = "put"
  /\ queue' = Append(queue, reading)
  /\ path' = [path EXCEPT ![reading] = "queued"]
  /\ Return(TRUE)
  /\ UNCHANGED <<cfgVars, passes, sessVars, connect_rc, batch_n, connected, npc, held, histVars, evicted,
                 everConnected, passFailed>>

\* queue_if_offline_evict with the newest entry dropped instead of the oldest
queue_if_offline_evict_newest ==
  /\ ppc = "evict"
  /\ IF empty
       THEN /\ path' = [path EXCEPT ![reading] = "evict_empty"]
            /\ Return(TRUE)
            /\ UNCHANGED <<queue, evicted>>
       ELSE /\ evicted' = Append(evicted, Last(queue))
            /\ queue' = SubSeq(queue, 1, Len(queue) - 1)
            /\ ppc' = "put_after_evict"
            /\ UNCHANGED <<reading, batch, in_batch, success_count, nextId,
                           returned, path>>
  /\ UNCHANGED <<cfgVars, passes, sessVars, connect_rc, batch_n, connected, npc, held, histVars, everConnected,
                 passFailed>>

\* queue_if_offline_evict with a get that waits for an entry
queue_if_offline_evict_blocking ==
  /\ ppc = "evict"
  /\ ~empty
  /\ evicted' = Append(evicted, Head(queue))
  /\ queue' = Tail(queue)
  /\ ppc' = "put_after_evict"
  /\ UNCHANGED <<cfgVars, passes, sessVars, connect_rc, batch_n, connected,
                 npc, held, histVars, everConnected, passFailed, reading,
                 batch, in_batch, success_count, nextId, returned, path>>

\* _queue_if_offline, queue full: get_nowait() removes the head; on an empty
\* queue it raises Empty, which the bare except swallows, and True is
\* returned without the put.
queue_if_offline_evict ==
  /\ ppc = "evict"
  /\ IF empty
       THEN /\ path' = [path EXCEPT ![reading] = "evict_empty"]
            /\ Return(TRUE)
            /\ UNCHANGED <<queue, evicted>>
       ELSE /\ evicted' = Append(evicted, Head(queue))
            /\ queue' = Tail(queue)
            /\ ppc' = "put_after_evict"
            /\ UNCHANGED <<reading, batch, in_batch, success_count, nextId,
                           returned, path>>
  /\ UNCHANGED <<cfgVars, passes, sessVars, connect_rc, batch_n, connected, npc, held, histVars, everConnected,
                 passFailed>>

\* _queue_if_offline, queue full: put(reading) after the eviction; return True
queue_if_offline_put_after_evict ==
  /\ ppc = "put_after_evict"
  /\ queue' = Append(queue, reading)
  /\ path' = [path EXCEPT ![reading] = "evict_queued"]
  /\ Return(TRUE)
  /\ UNCHANGED <<cfgVars, passes, sessVars, connect_rc, batch_n, connected, npc, held, histVars, evicted,
                 everConnected, passFailed>>

\* transmit_reading_send with a failed reading put into the offline queue
transmit_reading_send_requeue ==
  /\ ppc = "send"
  /\ \E rc \in SendOutcomes(reading) :
       /\ send_reading(reading, rc)
       /\ path' = [path EXCEPT ![reading] =
                     IF rc = MQTT_ERR_SUCCESS THEN "sent" ELSE "send_failed"]
       /\ queue' = IF rc = MQTT_ERR_SUCCESS THEN queue ELSE Append(queue, reading)
       /\ Return(rc = MQTT_ERR_SUCCESS)
  /\ UNCHANGED <<cfgVars, passes, sessVars, connect_rc, batch_n, connected, npc, held, evicted,
                 everConnected, passFailed>>

\* transmit_reading_send with every reading buffered as well as sent
transmit_reading_send_and_queue ==
  /\ ppc = "send"
  /\ \E rc \in SendOutcomes(reading) :
       /\ send_reading(reading, rc)
       /\ path' = [path EXCEPT ![reading] =
                     IF rc = MQTT_ERR_SUCCESS THEN "sent" ELSE "send_failed"]
       /\ queue' = IF rc = MQTT_ERR_SUCCESS THEN Append(queue, reading) ELSE queue
       /\ Return(rc = MQTT_ERR_SUCCESS)
  /\ UNCHANGED <<cfgVars, passes, sessVars, connect_rc, batch_n, connected, npc, held, evicted,
                 everConnected, passFailed>>

\* transmit_reading_send with a _send_reading that has no try/except
transmit_reading_send_no_except ==
  /\ ppc = "send"
  /\ \E rc \in SendOutcomes(reading) :
       /\ send_reading(reading, rc)
       /\ path' = [path EXCEPT ![reading] =
                     IF rc = MQTT_ERR_SUCCESS THEN "sent" ELSE "send_failed"]
       /\ IF rc = Caught
            THEN /\ returned' = [returned EXCEPT ![reading] = "raised"]
                 /\ reading' = 0
                 /\ ppc' = "idle"
                 /\ batch' = <<>>
                 /\ in_batch' = FALSE
                 /\ UNCHANGED <<success_count, nextId>>
            ELSE Return(rc = MQTT_ERR_SUCCESS)
  /\ UNCHANGED <<cfgVars, passes, sessVars, connect_rc, batch_n, connected,
                 queue, npc, held, evicted, everConnected, passFailed>>

\* transmit_reading: "return self._send_reading(reading)"
transmit_reading_send ==
  /\ ppc = "send"
  /\ \E rc \in SendOutcomes(reading) :
       /\ send_reading(reading, rc)
       /\ path' = [path EXCEPT ![reading] =
                     IF rc = MQTT_ERR_SUCCESS THEN "sent" ELSE "send_failed"]
       /\ Return(rc = MQTT_ERR_SUCCESS)
  /\ UNCHANGED <<cfgVars, passes, sessVars, connect_rc, batch_n, connected, queue, npc, held, evicted,
                 everConnected, passFailed>>

(***************************************************************************)
(* Caller thread: connect(), disconnect(), get_status()                    *)
(***************************************************************************)
\* connect(): client.connect(host, port, 60) either raises, and the except
\* branch returns False, or succeeds and loop_start() runs the network loop.
connect_call ==
  /\ ppc = "idle"
  /\ \E raised \in BOOLEAN :
       IF raised
         THEN /\ connect_result' = "False"
              /\ ppc' = "connect_returned"
              /\ UNCHANGED loop
         ELSE /\ connect_result' = NoValue
              /\ ppc' = "connect_wait"
              /\ loop' = "running"
  /\ timed_out' = FALSE
  /\ UNCHANGED <<cfgVars, prodVars, netVars, polls, status, wait_end,
                 connected, queue, histVars, evicted, everConnected>>

\* connect_wait stopping the network loop when its timeout is over
connect_wait_abort ==
  /\ ppc = "connect_wait"
  /\ IF connected
       THEN /\ wait_end' = "connected"
            /\ ppc' = "connect_return"
            /\ polls' = 0
            /\ UNCHANGED loop
       ELSE IF polls < MaxPolls
         THEN /\ polls' = polls + 1
              /\ UNCHANGED <<wait_end, ppc, loop>>
         ELSE /\ wait_end' = "timeout"
              /\ ppc' = "connect_return"
              /\ polls' = 0
              /\ loop' = "stopped"
  /\ UNCHANGED <<cfgVars, prodVars, netVars, status, connect_result,
                 timed_out, connected, queue, histVars, evicted,
                 everConnected>>

\* connect(): "while not self.connected and elapsed < timeout: sleep(0.1)"
connect_wait ==
  /\ ppc = "connect_wait"
  /\ IF connected
       THEN /\ wait_end' = "connected"
            /\ ppc' = "connect_return"
            /\ polls' = 0
       ELSE IF polls < MaxPolls
         THEN /\ polls' = polls + 1
              /\ UNCHANGED <<wait_end, ppc>>
         ELSE /\ wait_end' = "timeout"
              /\ ppc' = "connect_return"
              /\ polls' = 0
  /\ UNCHANGED <<cfgVars, prodVars, netVars, loop, status, connect_result,
                 timed_out, connected, queue, histVars, evicted,
                 everConnected>>

\* connect_return answering True whatever the flag holds
connect_return_true ==
  /\ ppc = "connect_return"
  /\ connect_result' = "True"
  /\ timed_out' = FALSE
  /\ wait_end' = NoValue
  /\ ppc' = "connect_returned"
  /\ UNCHANGED <<cfgVars, prodVars, netVars, loop, polls, status,
                 connected, queue, histVars, evicted, everConnected>>

\* connect(): "return self.connected"
connect_return ==
  /\ ppc = "connect_return"
  /\ connect_result' = IF connected THEN "True" ELSE "False"
  /\ timed_out' = (~connected /\ wait_end = "timeout")
  /\ wait_end' = NoValue
  /\ ppc' = "connect_returned"
  /\ UNCHANGED <<cfgVars, prodVars, netVars, loop, polls, status,
                 connected, queue, histVars, evicted, everConnected>>

\* connect(): the value goes to the caller
connect_returned ==
  /\ ppc = "connect_returned"
  /\ connect_result' = NoValue
  /\ ppc' = "idle"
  /\ UNCHANGED <<cfgVars, prodVars, netVars, loop, polls, status, wait_end,
                 timed_out, connected, queue, histVars, evicted,
                 everConnected>>

\* disconnect(): "if self.client:" holds for every constructed transmitter
disconnect_call ==
  /\ ppc = "idle"
  /\ ppc' = "loop_stop"
  /\ timed_out' = FALSE
  /\ UNCHANGED <<cfgVars, prodVars, netVars, loop, polls, status,
                 connect_result, wait_end, connected, queue, histVars,
                 evicted, everConnected>>

\* disconnect_loop_stop publishing what is buffered before it stops the loop
disconnect_loop_stop_flush ==
  /\ ppc = "loop_stop"
  /\ npc = "idle"
  /\ loop' = IF loop = "running" THEN "stopped" ELSE loop
  /\ ppc' = "client_disconnect"
  /\ queue' = <<>>
  /\ sent' = sent \o queue
  /\ pubs' = [r \in Readings |-> IF \E i \in 1..Len(queue) : queue[i] = r
                                   THEN pubs[r] + 1 ELSE pubs[r]]
  /\ UNCHANGED <<cfgVars, prodVars, netVars, polls, status, connect_result,
                 wait_end, timed_out, connected, fails, published, evicted,
                 everConnected>>

\* disconnect(): client.loop_stop() waits for the network loop to leave the
\* callback it is running, and ends it.
disconnect_loop_stop ==
  /\ ppc = "loop_stop"
  /\ npc = "idle"
  /\ loop' = IF loop = "running" THEN "stopped" ELSE loop
  /\ ppc' = "client_disconnect"
  /\ UNCHANGED <<cfgVars, prodVars, netVars, polls, status, connect_result,
                 wait_end, timed_out, connected, queue, histVars, evicted,
                 everConnected>>

\* disconnect(): client.disconnect(); with the loop stopped the client may
\* run the registered on_disconnect callback on the caller's thread (it does
\* when it still holds a socket), or return at once.
disconnect_client ==
  /\ ppc = "client_disconnect"
  /\ \E callback \in BOOLEAN :
       /\ callback => loop # "never"
       /\ ppc' = IF callback THEN "on_disconnect" ELSE "idle"
  /\ UNCHANGED <<cfgVars, sessVars, prodVars, netVars, connected, queue,
                 histVars, evicted, everConnected>>

\* _on_disconnect(client, userdata, rc) run from client.disconnect()
disconnect_on_disconnect ==
  /\ ppc = "on_disconnect"
  /\ connected' = FALSE
  /\ ppc' = "idle"
  /\ UNCHANGED <<cfgVars, sessVars, prodVars, netVars, queue, histVars,
                 evicted, everConnected>>

\* get_status(): the dict literal evaluates "connected": self.connected and
\* "broker" first
get_status_call ==
  /\ ppc = "idle"
  /\ status' = [NoStatus EXCEPT !.connected = connected,
                                !.broker = <<broker_host, ":", broker_port>>]
  /\ ppc' = "status_qsize"
  /\ UNCHANGED <<cfgVars, prodVars, netVars, loop, polls, connect_result,
                 wait_end, timed_out, connected, queue, histVars, evicted,
                 everConnected>>

\* get_status_qsize reporting the capacity left instead of the length
get_status_qsize_free ==
  /\ ppc = "status_qsize"
  /\ status' = [status EXCEPT !.queue_size = max_queue_size - qsize,
                              !.device_id = device_id]
  /\ ppc' = "status_return"
  /\ UNCHANGED <<cfgVars, prodVars, netVars, loop, polls, connect_result,
                 wait_end, timed_out, connected, queue, histVars, evicted,
                 everConnected>>

\* get_status(): "queue_size": self.offline_queue.qsize() and "device_id"
get_status_qsize ==
  /\ ppc = "status_qsize"
  /\ status' = [status EXCEPT !.queue_size = qsize,
                              !.device_id = device_id]
  /\ ppc' = "status_return"
  /\ UNCHANGED <<cfgVars, prodVars, netVars, loop, polls, connect_result,
                 wait_end, timed_out, connected, queue, histVars, evicted,
                 everConnected>>

\* get_status(): the dict goes to the caller
get_status_return ==
  /\ ppc = "status_return"
  /\ status' = NoStatus
  /\ ppc' = "idle"
  /\ UNCHANGED <<cfgVars, prodVars, netVars, loop, polls, connect_result,
                 wait_end, timed_out, connected, queue, histVars, evicted,
                 everConnected>>

(***************************************************************************)
(* Network-loop thread                                                     *)
(***************************************************************************)
\* loop_on_connect calling the callback while another callback is running
loop_on_connect_reentrant ==
  /\ loop = "running"
  /\ npc' = "on_connect"
  /\ connect_rc' \in ConnectRcs
  /\ UNCHANGED <<cfgVars, passes, sessVars, prodVars, connected, queue, ppc,
                 held, histVars, evicted, everConnected, passFailed>>

\* The network loop, started by loop_start, receives a CONNACK and calls
\* the registered on_connect callback with its return code.
loop_on_connect ==
  /\ loop = "running"
  /\ npc = "idle"
  /\ npc' = "on_connect"
  /\ connect_rc' \in ConnectRcs
  /\ UNCHANGED <<cfgVars, passes, sessVars, prodVars, connected, queue, ppc, held,
                 histVars, evicted, everConnected, passFailed>>

\* The network loop loses the connection and calls on_disconnect.
loop_on_disconnect ==
  /\ loop = "running"
  /\ npc = "idle"
  /\ npc' = "on_disconnect"
  /\ UNCHANGED <<cfgVars, passes, sessVars, prodVars, connected, queue, ppc, held,
                 connect_rc, histVars, evicted, everConnected, passFailed>>

\* The network loop receives the acknowledgement of a QoS 1 publish and
\* calls on_publish.
loop_on_publish ==
  /\ loop = "running"
  /\ npc = "idle"
  /\ Len(sent) > 0
  /\ npc' = "on_publish"
  /\ UNCHANGED <<cfgVars, passes, sessVars, prodVars, connected, queue, ppc, held,
                 connect_rc, histVars, evicted, everConnected, passFailed>>

\* on_connect starting a replay pass whatever the return code
on_connect_always_replay ==
  /\ npc = "on_connect"
  /\ connected' = (connect_rc = 0)
  /\ everConnected' = (everConnected \/ connect_rc = 0)
  /\ passFailed' = FALSE
  /\ npc' = "loop"
  /\ connect_rc' = 0
  /\ passes' = IF npc' = "loop" THEN passes + 1 ELSE passes
  /\ UNCHANGED <<cfgVars, sessVars, prodVars, queue, ppc, held, histVars,
                 evicted>>

\* _on_connect(client, userdata, flags, rc)
on_connect ==
  /\ npc = "on_connect"
  /\ IF connect_rc = 0
       THEN /\ connected' = TRUE
            /\ everConnected' = TRUE
            /\ passFailed' = FALSE
            /\ npc' = "loop"
       ELSE /\ connected' = FALSE
            /\ npc' = "idle"
            /\ UNCHANGED <<everConnected, passFailed>>
  /\ connect_rc' = 0
  /\ passes' = IF npc' = "loop" THEN passes + 1 ELSE passes
  /\ UNCHANGED <<cfgVars, sessVars, prodVars, queue, ppc, held, histVars,
                 evicted>>

\* _on_disconnect(client, userdata, rc)
on_disconnect ==
  /\ npc = "on_disconnect"
  /\ connected' = FALSE
  /\ npc' = "idle"
  /\ UNCHANGED <<cfgVars, passes, sessVars, prodVars, queue, ppc, held, connect_rc,
                 histVars, evicted, everConnected, passFailed>>

\* on_publish taking the acknowledged reading off the offline queue
on_publish_dequeue ==
  /\ npc = "on_publish"
  /\ npc' = "idle"
  /\ queue' = IF empty THEN queue ELSE Tail(queue)
  /\ UNCHANGED <<cfgVars, passes, sessVars, prodVars, connected, ppc, held,
                 connect_rc, histVars, evicted, everConnected, passFailed>>

\* _on_publish(client, userdata, mid): a debug log line, nothing else
on_publish ==
  /\ npc = "on_publish"
  /\ npc' = "idle"
  /\ UNCHANGED <<cfgVars, passes, sessVars, prodVars, connected, queue, ppc, held,
                 connect_rc, histVars, evicted, everConnected, passFailed>>

\* process_offline_queue_loop going on to the pop without its checks
process_offline_queue_loop_unchecked ==
  /\ npc = "loop"
  /\ npc' = "get"
  /\ UNCHANGED <<cfgVars, passes, sessVars, connect_rc, batch_n, connected,
                 queue, ppc, reading, batch, in_batch, success_count, held,
                 nextId, returned, path, histVars, evicted, everConnected,
                 passFailed>>

\* _process_offline_queue: "while not self.offline_queue.empty() and
\* self.connected"; leaving the loop ends the pass.
process_offline_queue_loop ==
  /\ npc = "loop"
  /\ npc' = IF ~empty /\ connected THEN "get" ELSE "idle"
  /\ passes' = IF ~empty /\ connected THEN passes ELSE passes - 1
  /\ UNCHANGED <<cfgVars, sessVars, connect_rc, batch_n, connected, queue, ppc, reading, batch, in_batch,
                 success_count, held, nextId, returned, path, histVars,
                 evicted, everConnected, passFailed>>

\* _process_offline_queue: reading = get_nowait(); Empty is caught by the
\* bare except, which breaks out of the loop.
process_offline_queue_get ==
  /\ npc = "get"
  /\ IF empty
       THEN /\ npc' = "idle"
            /\ passes' = passes - 1
            /\ UNCHANGED <<queue, held>>
       ELSE /\ held' = Head(queue)
            /\ queue' = Tail(queue)
            /\ npc' = "send"
            /\ UNCHANGED passes
  /\ UNCHANGED <<cfgVars, sessVars, connect_rc, batch_n, connected, ppc, reading, batch, in_batch,
                 success_count, nextId, returned, path, histVars, evicted,
                 everConnected, passFailed>>

\* process_offline_queue_send putting the reading back whatever the send
\* returned
process_offline_queue_send_requeue ==
  /\ npc = "send"
  /\ \E rc \in SendOutcomes(held) :
       /\ send_reading(held, rc)
       /\ npc' = "put_back"
       /\ passFailed' = TRUE
       /\ UNCHANGED held
  /\ UNCHANGED <<cfgVars, passes, sessVars, connect_rc, batch_n, connected,
                 queue, ppc, reading, batch, in_batch, success_count, nextId,
                 returned, path, evicted, everConnected>>

\* _process_offline_queue: "if self._send_reading(reading)"
process_offline_queue_send ==
  /\ npc = "send"
  /\ \E rc \in SendOutcomes(held) :
       /\ send_reading(held, rc)
       /\ IF rc = MQTT_ERR_SUCCESS
            THEN /\ held' = 0
                 /\ npc' = "loop"
                 /\ UNCHANGED passFailed
            ELSE /\ npc' = "put_back"
                 /\ passFailed' = TRUE
                 /\ UNCHANGED held
  /\ UNCHANGED <<cfgVars, passes, sessVars, connect_rc, batch_n, connected, queue, ppc, reading, batch, in_batch,
                 success_count, nextId, returned, path, evicted, everConnected>>

\* process_offline_queue_put_back without the break: the loop goes on
process_offline_queue_put_back_no_break ==
  /\ npc = "put_back"
  /\ queue' = Append(queue, held)
  /\ held' = 0
  /\ npc' = "loop"
  /\ UNCHANGED <<cfgVars, passes, sessVars, connect_rc, batch_n, connected, ppc, reading, batch, in_batch,
                 success_count, nextId, returned, path, histVars, evicted,
                 everConnected, passFailed>>

\* _process_offline_queue: "self.offline_queue.put(reading); break"
process_offline_queue_put_back ==
  /\ npc = "put_back"
  /\ queue' = Append(queue, held)
  /\ held' = 0
  /\ npc' = "idle"
  /\ passes' = passes - 1
  /\ UNCHANGED <<cfgVars, sessVars, connect_rc, batch_n, connected, ppc, reading, batch, in_batch,
                 success_count, nextId, returned, path, histVars, evicted,
                 everConnected, passFailed>>

(***************************************************************************)
(* Specifications                                                          *)
(***************************************************************************)
Next ==
  \/ transmit_reading_call
  \/ transmit_batch_call
  \/ transmit_batch_loop
  \/ queue_if_offline_check_connected
  \/ queue_if_offline_check_size
  \/ queue_if_offline_put
  \/ queue_if_offline_evict
  \/ queue_if_offline_put_after_evict
  \/ transmit_reading_send
  \/ connect_call
  \/ connect_wait
  \/ connect_return
  \/ connect_returned
  \/ disconnect_call
  \/ disconnect_loop_stop
  \/ disconnect_client
  \/ disconnect_on_disconnect
  \/ get_status_call
  \/ get_status_qsize
  \/ get_status_return
  \/ loop_on_connect
  \/ loop_on_disconnect
  \/ loop_on_publish
  \/ on_connect
  \/ on_disconnect
  \/ on_publish
  \/ process_offline_queue_loop
  \/ process_offline_queue_get
  \/ process_offline_queue_send
  \/ process_offline_queue_put_back

\* The transmitter built from the default config.
Spec == Init /\ [][Next]_vars

\* The transmitter built from a config that may name a capacity.
SpecConfig == InitConfig /\ [][Next]_vars

\* The transmitter handed a reading that lacks a field.
SpecMalformed == InitMalformed /\ [][Next]_vars

\* The steps the caller's thread takes inside a call once it has made it.
CallerStep ==
  \/ transmit_batch_loop
  \/ queue_if_offline_check_connected
  \/ queue_if_offline_check_size
  \/ queue_if_offline_put
  \/ queue_if_offline_evict
  \/ queue_if_offline_put_after_evict
  \/ transmit_reading_send
  \/ connect_wait
  \/ connect_return
  \/ connect_returned
  \/ disconnect_client
  \/ disconnect_on_disconnect
  \/ get_status_qsize
  \/ get_status_return

\* The steps the network thread takes inside a callback once it is called.
NetworkStep ==
  \/ on_connect
  \/ on_disconnect
  \/ on_publish
  \/ process_offline_queue_loop
  \/ process_offline_queue_get
  \/ process_offline_queue_send
  \/ process_offline_queue_put_back

\* Both threads are scheduled: a thread inside a call or a callback goes on
\* with it, and loop_stop(), which ends the network loop after the callback
\* it is running, is not overtaken for ever by new callbacks. Calls and
\* network events themselves need not happen.
SpecFair ==
  /\ Init /\ [][Next]_vars
  /\ WF_vars(CallerStep)
  /\ WF_vars(NetworkStep)
  /\ SF_vars(disconnect_loop_stop)

TypeOK ==
  /\ connected \in BOOLEAN
  /\ ppc \in {"idle", "batch_loop", "check_connected", "check_size", "put",
              "evict", "put_after_evict", "send", "connect_wait",
              "connect_return", "connect_returned", "loop_stop", "client_disconnect",
              "on_disconnect", "status_qsize", "status_return"}
  /\ npc \in {"idle", "on_connect", "on_disconnect", "on_publish", "loop",
              "get", "send", "put_back"}
  /\ loop \in {"never", "running", "stopped"}
  /\ polls \in 0..MaxPolls
  /\ connect_rc \in ConnectRcs
  /\ connect_result \in {NoValue, "True", "False"}
  /\ wait_end \in {NoValue, "connected", "timeout"}
  /\ timed_out \in BOOLEAN
  /\ reading \in 0..MaxReadings
  /\ held \in 0..MaxReadings
  /\ nextId \in 0..MaxReadings
  /\ fails \in 0..MaxFails

(***************************************************************************)
(* Properties                                                              *)
(***************************************************************************)
\* the network thread is inside _process_offline_queue
InReplay == npc \in {"loop", "get", "send", "put_back"}

\* r is in the offline queue
InQueue(r) == \E i \in 1..Len(queue) : queue[i] = r

\* r was successfully published
IsSent(r) == \E i \in 1..Len(sent) : sent[i] = r

\* r was removed by the overflow branch of _queue_if_offline
IsEvicted(r) == \E i \in 1..Len(evicted) : evicted[i] = r

\* r was handed to _queue_if_offline's offline branch (state seen as not
\* Connected)
WentOffline(r) == path[r] \in {"queued", "evict_queued", "evict_empty"}

\* transmit_reading returns for r in this step
Returns(r) == returned[r] = NoValue /\ returned'[r] # NoValue

\* C1: in every reachable state the offline queue holds at most
\* max_queue_size readings.
C1_QueueBounded == Len(queue) <= max_queue_size

\* C2: after n > max_queue_size submissions made while the transmitter has
\* never been connected, the queue holds exactly the last max_queue_size
\* submitted readings in submission order, and the evicted readings are the
\* first n - max_queue_size, one per overflowing submission, oldest first.
C2_DropOldest ==
  (~everConnected /\ ppc = "idle" /\ nextId > max_queue_size) =>
     /\ queue = [i \in 1..max_queue_size |-> nextId - max_queue_size + i]
     /\ evicted = [i \in 1..(nextId - max_queue_size) |-> i]

C2_Witness ==
  /\ ~everConnected
  /\ ppc = "idle"
  /\ nextId > max_queue_size
  /\ Len(queue) = max_queue_size
  /\ Len(evicted) >= 1

\* C3: every reading for which transmit_reading returned true is accounted
\* for in exactly one way: in the offline queue (or in the hands of the
\* running replay pass), successfully published, or evicted by overflow.
C3_Accounted ==
  \A r \in Readings :
    returned[r] = "True" =>
      \/ (InQueue(r) \/ held = r) /\ ~IsSent(r) /\ ~IsEvicted(r)
      \/ ~(InQueue(r) \/ held = r) /\ IsSent(r) /\ ~IsEvicted(r)
      \/ ~(InQueue(r) \/ held = r) /\ ~IsSent(r) /\ IsEvicted(r)

\* C4: the readings published by replay are published in the order they
\* were enqueued (the single producer enqueues in submission order), over
\* all replay passes.
C4_ReplayFifo ==
  \A i, j \in 1..Len(sent) :
    (i < j /\ path[sent[i]] # "sent" /\ path[sent[j]] # "sent")
       => sent[i] < sent[j]

\* C5: the step that puts a failed reading back leaves it at the head of
\* the queue, followed by the entries that were behind it.
C5_FailedAtHead ==
  [][(npc = "put_back" /\ npc' = "idle") =>
        (Head(queue') = held /\ Tail(queue') = queue)]_vars

\* C6: a send failure during a replay pass ends the pass at once and is not
\* fatal: the network thread goes from the failed send to the put-back with
\* the failed reading in hand, the put-back returns the reading to the queue
\* and ends the pass (the thread is idle again, no exception), and from the
\* failure until the next successful _on_connect the replay pops nothing.
C6_FailureEndsPass ==
  /\ [](passFailed => ( \/ npc = "put_back" /\ held # 0
                        \/ ~InReplay /\ held = 0 ))
  /\ [][ /\ (npc = "send" /\ passFailed' /\ ~passFailed)
              => (npc' = "put_back" /\ held' = held /\ queue' = queue)
         /\ (npc = "put_back" /\ npc' # "put_back")
              => /\ npc' = "idle"
                 /\ \E i \in 1..Len(queue') : queue'[i] = held
                 /\ Len(queue') = Len(queue) + 1
         /\ (passFailed /\ passFailed') => ~(held = 0 /\ held' # 0)
       ]_vars

\* a pass ended on a send failure while another entry was behind the
\* failed one, and that entry is still in the queue
C6_Witness ==
  /\ passFailed
  /\ npc = "idle"
  /\ Len(queue) >= 2
  /\ fails >= 1

\* C7: a transmit_reading that saw the state as not Connected returns true,
\* has issued no publish, and its reading is the tail of the queue at the
\* moment it returns.
C7_QueuedAtTail ==
  [][\A r \in Readings :
       (Returns(r) /\ WentOffline(r)') =>
          /\ returned'[r] = "True"
          /\ pubs'[r] = 0
          /\ queue' # <<>>
          /\ Last(queue') = r]_vars

\* C8: the queue capacity is the max_queue_size the construction config
\* supplies: a transmitter built with a capacity c in its config never
\* buffers more than c readings, and after c + 1 readings submitted while
\* never connected its queue retains only the last c of them.
C8_ConfiguredCapacity ==
  config_max # 0 =>
     /\ Len(queue) <= config_max
     /\ (~everConnected /\ ppc = "idle" /\ nextId = config_max + 1)
           => queue = [i \in 1..config_max |-> i + 1]

\* C9: a transmit_reading that saw the state as Connected and whose publish
\* the transport reported failed returns false and leaves the queue as it
\* was; its reading is never in the queue, never taken by replay and never
\* published, and the one failed publish is the only one issued for it.
C9_FailedSendDropped ==
  /\ [](\A r \in Readings :
          path[r] = "send_failed" =>
             /\ ~InQueue(r)
             /\ held # r
             /\ ~IsSent(r)
             /\ pubs[r] = 1)
  /\ [][\A r \in Readings :
          (Returns(r) /\ path'[r] = "send_failed") =>
             (returned'[r] = "False" /\ queue' = queue)]_vars

\* a direct send failed, and afterwards a replay pass published a reading
\* submitted later
C9_Witness ==
  \E r \in Readings :
    /\ path[r] = "send_failed"
    /\ returned[r] = "False"
    /\ \E i \in 1..Len(sent) : sent[i] > r /\ path[sent[i]] # "sent"

\* C10: a transmit_reading that saw the state as Connected and whose publish
\* the transport reported successful returns true and leaves the queue as
\* it was; exactly one publish is ever issued for its reading, which is never
\* in the queue.
C10_DirectSend ==
  /\ [](\A r \in Readings :
          path[r] = "sent" =>
             /\ pubs[r] = 1
             /\ Cardinality({i \in 1..Len(sent) : sent[i] = r}) = 1
             /\ ~InQueue(r)
             /\ held # r)
  /\ [][\A r \in Readings :
          (Returns(r) /\ path'[r] = "sent") =>
             (returned'[r] = "True" /\ queue' = queue)]_vars

\* a direct send succeeded with the queue empty before and after
C10_Witness ==
  \E r \in Readings :
    /\ path[r] = "sent"
    /\ returned[r] = "True"
    /\ queue = <<>>
    /\ held = 0
    /\ evicted = <<>>

\* the readings of the running (or last) transmit_batch call, in list order
BatchReadings == (nextId - batch_n + 1)..nextId

\* C11: transmit_batch calls transmit_reading once per element in list
\* order (while it runs, the elements that have returned are exactly those
\* before the ones still to iterate, and success_count counts those that
\* returned true); the value it returns is the number of elements for which
\* transmit_reading returned true, it lies between 0 and n, and it is n for
\* a batch submitted while the transmitter has never been connected.
C11_BatchCount ==
  in_batch =>
     /\ success_count =
          Cardinality({r \in BatchReadings : returned[r] = "True"})
     /\ success_count \in 0..batch_n
     /\ \A i \in 1..Len(batch) : batch[i] = nextId - Len(batch) + i
     /\ \A r \in BatchReadings :
          (returned[r] # NoValue) <=>
             (r # reading /\ \A i \in 1..Len(batch) : batch[i] # r)
     /\ (ppc = "batch_loop" /\ batch = <<>>) =>
          /\ \A r \in BatchReadings : returned[r] # NoValue
          /\ ~everConnected => success_count = batch_n

\* a batch of two is about to return 1: one element was accepted, the other
\* failed in a direct send
C11_Witness ==
  /\ in_batch
  /\ ppc = "batch_loop"
  /\ batch = <<>>
  /\ batch_n = 2
  /\ success_count = 1

\* C12: the step that ends the body of _on_connect sets the flag and starts
\* a replay pass when rc is 0, and clears the flag, starts no pass and
\* leaves the queue alone for any other rc; the network thread enters
\* _process_offline_queue from no other step than a successful _on_connect,
\* so each such callback starts exactly one pass.
C12_ConnectStartsReplay ==
  [][ /\ (npc = "on_connect" /\ npc' # "on_connect") =>
           IF connect_rc = 0
             THEN connected' /\ npc' = "loop" /\ queue' = queue
             ELSE /\ ~connected'
                  /\ npc' = "idle"
                  /\ queue' = queue
                  /\ held' = held
      /\ (~InReplay /\ InReplay') =>
           (npc = "on_connect" /\ connect_rc = 0 /\ npc' = "loop")
    ]_vars

\* a successful _on_connect has just started a pass over a buffered reading
C12_Witness ==
  /\ npc = "loop"
  /\ connected
  /\ Len(queue) >= 1
  /\ sent = <<>>
  /\ held = 0

\* C13: the flag is FALSE after construction and every step that changes it
\* is the body of _on_connect or of _on_disconnect (run by the network loop
\* or from client.disconnect()): no step of transmit_reading, transmit_batch,
\* get_status, connect or disconnect itself writes it, and the body of
\* _on_publish changes neither the flag nor the queue nor the reading in hand.
C13_StateWriters ==
  /\ ~connected
  /\ [][ /\ (connected' # connected) =>
              \/ npc = "on_connect" /\ npc' # npc /\ ppc' = ppc
              \/ npc = "on_disconnect" /\ npc' # npc /\ ppc' = ppc
              \/ ppc = "on_disconnect" /\ ppc' # ppc /\ npc' = npc
         /\ (npc = "on_publish" /\ npc' # npc) =>
              (connected' = connected /\ queue' = queue /\ held' = held)
       ]_vars

\* _on_publish is about to run while a reading is buffered
C13_Witness ==
  /\ npc = "on_publish"
  /\ Len(queue) >= 1
  /\ Len(sent) >= 1

\* C14: no step of get_status changes the flag, the queue, the capacity, the
\* network loop or what has been published or evicted; the "connected" entry
\* of the dict is the flag as the call reads it and the "queue_size" entry is
\* the length of the queue as the call reads it, with the transmitter's
\* device_id beside them.
C14_StatusReadOnly ==
  [][ /\ (ppc \in {"status_qsize", "status_return"} \/
          ppc' \in {"status_qsize", "status_return"}) /\ ppc' # ppc =>
            UNCHANGED <<connected, queue, held, max_queue_size, loop, npc,
                        pubs, sent, evicted>>
      /\ (ppc = "idle" /\ ppc' = "status_qsize") =>
            status'.connected = connected
      /\ (ppc = "status_qsize" /\ ppc' = "status_return") =>
            /\ status'.queue_size = Len(queue)
            /\ status'.connected = status.connected
            /\ status'.device_id = device_id
    ]_vars

\* get_status is returning a dict that reports a full queue while offline
C14_Witness ==
  /\ ppc = "status_return"
  /\ status.queue_size = max_queue_size
  /\ ~status.connected
  /\ Len(queue) = max_queue_size

\* C15: connect() always ends by returning a boolean: "True" exactly when
\* the flag is TRUE as the call reads it after its bounded wait (and then a
\* successful _on_connect has arrived), "False" when the flag is FALSE then
\* and when initiating the connection raised; the wait is left after at most
\* MaxPolls sleeps and no step of connect() writes the flag.
C15_ConnectResult ==
  /\ [](ppc = "connect_returned" => connect_result \in {"True", "False"})
  /\ [](connect_result = "True" => everConnected)
  /\ [](ppc = "connect_wait" => polls <= MaxPolls)
  /\ [][ /\ (ppc = "connect_return" /\ ppc' # ppc) =>
              /\ ppc' = "connect_returned"
              /\ connect_result' = IF connected THEN "True" ELSE "False"
         /\ (ppc = "idle" /\ ppc' = "connect_returned") =>
              connect_result' = "False"
         /\ (ppc \in {"connect_wait", "connect_return", "connect_returned"}
             /\ ppc' # ppc) => connected' = connected
       ]_vars

\* connect() is returning False although a successful _on_connect arrived
\* earlier in the session: the flag was FALSE again when the wait ended
C15_Witness ==
  /\ ppc = "connect_returned"
  /\ connect_result = "False"
  /\ everConnected
  /\ loop = "running"

\* the caller thread is inside disconnect()
InDisconnect == ppc \in {"loop_stop", "client_disconnect", "on_disconnect"}

\* C16: every step of disconnect() leaves the offline queue with the same
\* entries in the same order, publishes nothing, evicts nothing and starts
\* no replay; the only thing a disconnect() can change in the connection
\* state is to clear the flag through _on_disconnect, so a call made while
\* the flag is FALSE leaves it FALSE, and a call made when the network loop
\* is not running leaves the loop as it is.
C16_DisconnectKeepsQueue ==
  [][ ((InDisconnect \/ (ppc = "idle" /\ ppc' = "loop_stop")) /\ ppc' # ppc)
        => /\ UNCHANGED <<queue, held, pubs, sent, evicted, npc>>
           /\ ~connected => ~connected'
           /\ connected' # connected => ppc = "on_disconnect"
           /\ loop # "running" => loop' = loop
           /\ ppc' # "loop_stop" => loop' # "running"
    ]_vars

\* a second disconnect() is running, the loop already stopped by an earlier
\* one, while readings are buffered
C16_Witness ==
  /\ ppc = "loop_stop"
  /\ loop = "stopped"
  /\ ~connected
  /\ Len(queue) = max_queue_size
  /\ timed_out = FALSE

\* C17: at most one call of _process_offline_queue is running at any time,
\* the network thread being inside the replay exactly while one is; the
\* producer may be anywhere in transmit_reading meanwhile.
C17_OnePass ==
  /\ passes \in {0, 1}
  /\ InReplay <=> passes = 1
  /\ held # 0 => InReplay

\* the producer is about to enqueue while a replay pass holds a reading
C17_Witness ==
  /\ passes = 1
  /\ npc = "send"
  /\ held # 0
  /\ ppc = "put"

\* C18: every message handed to client.publish, by a direct send or by the
\* replay, has the topic "sensors/sensor_device_1/<sensor_type>/
\* <measurement_type>" of its reading, a payload carrying the reading's
\* timestamp, value, position (x, y, z), sensor_type and measurement_type
\* with the transmitter's device_id, and QoS 1; every reading with a publish
\* call has such a message.
C18_PublishFormat ==
  /\ \A m \in published :
       LET rd == ReadingOf(m.reading) IN
         /\ m.topic = "sensors/sensor_device_1/" \o rd.sensor_type \o "/" \o
                      rd.measurement_type
         /\ m.payload.timestamp = rd.timestamp
         /\ m.payload.value = rd.value
         /\ m.payload.position.x = rd.x_position
         /\ m.payload.position.y = rd.y_position
         /\ m.payload.position.z = rd.z_position
         /\ m.payload.sensor_type = rd.sensor_type
         /\ m.payload.measurement_type = rd.measurement_type
         /\ m.payload.device_id = "sensor_device_1"
         /\ m.qos = 1
  /\ \A r \in Readings :
       pubs[r] > 0 <=> \E m \in published : m.reading = r

\* one reading was published by a direct send and another by the replay
C18_Witness ==
  \E m1, m2 \in published :
    /\ path[m1.reading] = "sent"
    /\ path[m2.reading] = "queued"
    /\ m1.topic # m2.topic

\* C19: the replay takes an entry off the queue only in its get step, which
\* it reaches only from the loop check that found the queue non-empty and
\* the flag TRUE, and the entry taken is the head while the others keep
\* their order; a loop check that finds the flag FALSE ends the pass with
\* the queue and its order untouched and nothing in hand.
C19_PopAfterCheck ==
  [][ /\ (held = 0 /\ held' # 0) =>
           /\ npc = "get"
           /\ connected
           /\ held' = Head(queue)
           /\ queue' = Tail(queue)
      /\ (npc' = "get" /\ npc # "get") =>
           (npc = "loop" /\ ~empty /\ connected)
      /\ (npc = "loop" /\ npc' # "loop" /\ ~connected) =>
           (npc' = "idle" /\ queue' = queue /\ held' = 0)
      /\ (npc = "loop" /\ npc' = "idle") =>
           (queue' = queue /\ (empty \/ ~connected))
    ]_vars

\* a pass has popped the head after its check and another entry waits
C19_Witness ==
  /\ npc = "send"
  /\ held # 0
  /\ connected
  /\ Len(queue) >= 1
  /\ \A i \in 1..Len(queue) : queue[i] > held

\* while the network thread is inside the replay the flag stays TRUE
ReplayConnected == InReplay => connected

\* C20: after connect() has returned False on its timeout, and until the
\* next connect() or disconnect() call, the network loop it started keeps
\* running and can still deliver _on_connect; a successful _on_connect
\* delivered then sets the flag and starts a replay pass over the queue as
\* it stands, whatever was buffered since.
C20_TimeoutKeepsAttempt ==
  /\ [](timed_out => loop = "running")
  /\ []((timed_out /\ npc = "idle") => ENABLED loop_on_connect)
  /\ [][ /\ (ppc = "connect_return" /\ ppc' # ppc) =>
              /\ loop' = loop
              /\ timed_out' = (~connected /\ wait_end = "timeout")
         /\ (timed_out /\ npc = "on_connect" /\ connect_rc = 0 /\ npc' # npc)
              => /\ connected'
                 /\ npc' = "loop"
                 /\ passes' = 1
                 /\ queue' = queue
       ]_vars

\* connect() timed out, and the replay started by a later successful
\* _on_connect holds the first reading ever published
C20_Witness ==
  /\ timed_out
  /\ connected
  /\ npc = "send"
  /\ held # 0
  /\ published = {}
  /\ ppc = "idle"

\* C21: with both threads scheduled, every transmit_reading call returns
\* (its put never waits for space, its eviction never waits for an entry),
\* every call of the caller's thread returns, connect() among them after at
\* most MaxPolls sleeps, and every replay pass ends, whatever
\* the producer enqueues meanwhile and whether or not a send fails.
C21_NoBlocking ==
  /\ (reading # 0) ~> (reading = 0)
  /\ (ppc # "idle") ~> (ppc = "idle")
  /\ InReplay ~> ~InReplay
  /\ [](polls <= MaxPolls)

\* the eviction finds the queue emptied by the replay: it must not wait
C21_Witness ==
  /\ ppc = "evict"
  /\ empty
  /\ reading # 0
  /\ connected

\* C22: no transmit_reading call ends with an exception; the direct send of
\* the malformed reading while the flag is TRUE returns False to the caller
\* with the queue unchanged and nothing published, and the replay's send of
\* it is a send failure of the pass: the reading goes to the put-back, still
\* in hand, with nothing published.
C22_NoException ==
  /\ [](\A r \in Readings : returned[r] \in {NoValue, "True", "False"})
  /\ [][ /\ (ppc = "send" /\ reading = malformed /\ ppc' # ppc) =>
              /\ returned'[reading] = "False"
              /\ ppc' = IF in_batch THEN "batch_loop" ELSE "idle"
              /\ success_count' = success_count
              /\ UNCHANGED <<queue, held, pubs, published, sent>>
         /\ (npc = "send" /\ held = malformed /\ npc' # npc) =>
              /\ npc' = "put_back"
              /\ passFailed'
              /\ UNCHANGED <<queue, held, pubs, published, sent>>
       ]_vars

\* the malformed reading was met by a direct send inside a batch, which went
\* on, and nothing was published for it
C22_Witness ==
  /\ malformed # 0
  /\ returned[malformed] = "False"
  /\ path[malformed] = "send_failed"
  /\ pubs[malformed] = 0
  /\ in_batch
  /\ fails = 0

\* C23: whenever the flag is TRUE, the replay pass started by the last
\* successful _on_connect has ended without a send failure, the network
\* thread is idle and no call of the caller's thread is in progress, the
\* offline queue is empty.
C23_NoStranded ==
  (connected /\ ~passFailed /\ npc = "idle" /\ ppc = "idle" /\ reading = 0)
     => queue = <<>>

\* C24: no reading is published successfully twice; no reading is in the
\* queue twice, or in the queue and in the replay's hands; a reading that was
\* sent directly, or whose publish succeeded, is never in the queue or in
\* the replay's hands; and the replay puts back only a reading whose
\* publish it has just seen fail.
C24_NoDuplicatePublish ==
  /\ [](\A i, j \in 1..Len(sent) : sent[i] = sent[j] => i = j)
  /\ [](\A i, j \in 1..Len(queue) : queue[i] = queue[j] => i = j)
  /\ [](held # 0 => ~InQueue(held))
  /\ [](\A r \in Readings :
          (path[r] \in {"sent", "send_failed"} \/ IsSent(r)) =>
             (~InQueue(r) /\ held # r))
  /\ [][(npc = "put_back" /\ npc' # npc) =>
          (passFailed /\ pubs[held] >= 1 /\ ~IsSent(held))]_vars

\* a reading whose replay publish failed was put back and published by a
\* later pass, once
C24_Witness ==
  \E r \in Readings :
    /\ pubs[r] = 2
    /\ IsSent(r)
    /\ path[r] = "queued"
    /\ ~InQueue(r)

\* C25: the step of transmit_reading that evicts the head of the queue is
\* taken with the queue holding exactly max_queue_size entries.
C25_EvictOnlyWhenFull ==
  [][(ppc = "evict" /\ Len(evicted') = Len(evicted) + 1) =>
        Len(queue) = max_queue_size]_vars

=============================================================================
